---- MODULE Spec2Model ----
(***************************************************************************)
(* A model of the syslog5424 crate: the validated header-field types and   *)
(* sanitizers of src/types.rs, the reserved IANA entries of src/iana.rs    *)
(* and the builder and formatter of src/lib.rs.                            *)
(*                                                                         *)
(* A Rust `char` is modelled by its code point and a `String` / `&str` by  *)
(* the sequence of its code points; a byte buffer is a sequence of numbers *)
(* in 0..255.  as_bytes encodes a string as UTF-8, so that a length in     *)
(* bytes and a length in characters are different things in the model, as  *)
(* they are in the program.                                                *)
(***************************************************************************)
EXTENDS Integers, Sequences, FiniteSets, TLC

VARIABLES
    pc,       \* where the caller is: "start", "building", "built", "formatted";
              \* "input" / "output" in the specifications of the pure functions
    builder,  \* the Rfc5424Builder's staged `data`
    cfg,      \* the built Rfc5424
    ev,       \* the Rfc5424Data of the last format call
    iter,     \* the order in which the HashMap of that call was iterated
    log,      \* the local `log` of the last format call
    sink,     \* the bytes the writer of the last format call accepted
    result,   \* the value the last fallible call returned
    call,     \* the last call made on the builder: its name and argument
    fault,    \* what the sink did in the last format call: the write it
              \* failed (0 for none), the bytes of it it took, its error
    prev,     \* the iteration order, sink and result of the format call
              \* before the last one, made with the same event
    callers,  \* the format calls running at the same time on one `cfg`
    arg,      \* the argument of a pure function under check
    ret       \* its return value

vars == <<pc, builder, cfg, ev, iter, log, sink, result, call, fault, prev,
          callers, arg, ret>>

(***************************************************************************)
(* Bounds of the model.                                                    *)
(***************************************************************************)
\* how far past a header type's cap the checked inputs go
MaxOver == 1
\* longest value given to escape_val
MaxValLen == 4
\* longest name given to remove_invalid (the cap is 32)
MaxNameLen == 50
\* longest repeated pattern the names are made of
MaxPat == 3
\* most reserved entries (origin and time quality together) a builder is given
MaxReserved == 2
NCallers == 2

(***************************************************************************)
(* Characters.                                                             *)
(***************************************************************************)
NILVALUE == 45
SP == 32
LT == 60
GT == 62
DIGIT0 == 48
BACKSLASH == 92
QUOTE == 34
RBRACKET == 93
LBRACKET == 91
EQUALS == 61
AT == 64
BOM == <<239, 187, 191>>

Min(a, b) == IF a < b THEN a ELSE b

\* char::is_ascii_graphic: U+0021 '!' ..= U+007E '~'
is_ascii_graphic(c) == c >= 33 /\ c <= 126

\* the UTF-8 encoding of one code point
Utf8(c) ==
    IF c < 128 THEN <<c>>
    ELSE IF c < 2048 THEN <<192 + (c \div 64), 128 + (c % 64)>>
    ELSE IF c < 65536
         THEN <<224 + (c \div 4096), 128 + ((c \div 64) % 64), 128 + (c % 64)>>
    ELSE <<240 + (c \div 262144), 128 + ((c \div 4096) % 64),
           128 + ((c \div 64) % 64), 128 + (c % 64)>>

\* str::as_bytes
RECURSIVE as_bytes(_)
as_bytes(s) ==
    IF Len(s) = 0 THEN <<>>
    ELSE IF Len(s) = 1 THEN Utf8(s[1])
    ELSE LET half == Len(s) \div 2
         IN  as_bytes(SubSeq(s, 1, half)) \o as_bytes(SubSeq(s, half + 1, Len(s)))

\* str::len, String::len: the length in bytes
str_len(s) == Len(as_bytes(s))

\* ToString for an unsigned integer: decimal digits, no padding
RECURSIVE to_string(_)
to_string(n) ==
    IF n < 10 THEN <<DIGIT0 + n>>
    ELSE to_string(n \div 10) \o <<DIGIT0 + (n % 10)>>

\* str::replace with a char pattern: every `from` becomes the string `to`
RECURSIVE replace(_, _, _)
replace(s, from, to) ==
    IF s = <<>> THEN <<>>
    ELSE (IF Head(s) = from THEN to ELSE <<Head(s)>>) \o replace(Tail(s), from, to)

\* Iterator::take(n)
take(s, n) == SubSeq(s, 1, Min(n, Len(s)))

(***************************************************************************)
(* src/types.rs                                                            *)
(***************************************************************************)
Facility == 0 .. 23
Severity == 0 .. 7
FacilityUser == 1
FacilityLocal7 == 23
SeverityError == 3
SeverityDebug == 7

HostNameMax == 255
AppNameMax == 48
ProcessIdMax == 128
MessageIdMax == 32
NameMax == 32

Ok(v) == [ok |-> TRUE, err |-> "", val |-> v]
Err(e) == [ok |-> FALSE, err |-> e, val |-> <<>>]

\* a faulty variant: the cap is exclusive
new_header_val_exclusive(value, max_length) ==
    IF value = <<>> THEN Err("FieldEmpty")
    ELSE IF \E i \in 1 .. Len(value) : ~is_ascii_graphic(value[i])
         THEN Err("InvalidCharacters")
    ELSE IF str_len(value) >= max_length THEN Err("FieldTooLong")
    ELSE Ok(value)

\* a faulty variant: the length is checked before the characters
new_header_val_length_first(value, max_length) ==
    IF value = <<>> THEN Err("FieldEmpty")
    ELSE IF str_len(value) > max_length THEN Err("FieldTooLong")
    ELSE IF \E i \in 1 .. Len(value) : ~is_ascii_graphic(value[i])
         THEN Err("InvalidCharacters")
    ELSE Ok(value)

\* a faulty variant: an over-long value is cut to the cap
new_header_val_truncating(value, max_length) ==
    IF value = <<>> THEN Err("FieldEmpty")
    ELSE IF \E i \in 1 .. Len(value) : ~is_ascii_graphic(value[i])
         THEN Err("InvalidCharacters")
    ELSE Ok(take(value, max_length))

new_header_val(value, max_length) ==
    IF value = <<>> THEN Err("FieldEmpty")
    ELSE IF \E i \in 1 .. Len(value) : ~is_ascii_graphic(value[i])
         THEN Err("InvalidCharacters")
    ELSE IF str_len(value) > max_length THEN Err("FieldTooLong")
    ELSE Ok(value)

HostName_new(hostname) == new_header_val(hostname, HostNameMax)
AppName_new(name) == new_header_val(name, AppNameMax)
ProcessId_new(id) == new_header_val(id, ProcessIdMax)
MessageId_new(id) == new_header_val(id, MessageIdMax)

\* a faulty variant: the backslash is escaped last
escape_val_backslash_last(val) ==
    replace(replace(replace(val, QUOTE, <<BACKSLASH, QUOTE>>),
                    RBRACKET, <<BACKSLASH, RBRACKET>>),
            BACKSLASH, <<BACKSLASH, BACKSLASH>>)

escape_val(val) ==
    replace(replace(replace(val, BACKSLASH, <<BACKSLASH, BACKSLASH>>),
                    QUOTE, <<BACKSLASH, QUOTE>>),
            RBRACKET, <<BACKSLASH, RBRACKET>>)

NotEquals(c) == c # EQUALS
NotSpace(c) == c # SP
NotRBracket(c) == c # RBRACKET
NotQuote(c) == c # QUOTE

\* a faulty variant: the name is truncated before it is filtered
remove_invalid_take_first(name) ==
    SelectSeq(SelectSeq(SelectSeq(SelectSeq(SelectSeq(take(name, NameMax),
        is_ascii_graphic), NotEquals), NotSpace), NotRBracket), NotQuote)

\* chars().filter(..) five times (SelectSeq), then take(32)
remove_invalid(name) ==
    take(SelectSeq(SelectSeq(SelectSeq(SelectSeq(SelectSeq(name,
        is_ascii_graphic), NotEquals), NotSpace), NotRBracket), NotQuote), NameMax)

(***************************************************************************)
(* src/lib.rs: the priority                                                *)
(***************************************************************************)
\* a faulty variant: the historical formula facility * severity
generate_priority_product(facility, severity) ==
    <<LT>> \o to_string((facility * severity) % 256) \o <<GT>>

\* u8 arithmetic: (facility as u8 * 8) + severity as u8
generate_priority(facility, severity) ==
    <<LT>> \o to_string((((facility * 8) % 256) + severity) % 256) \o <<GT>>

(***************************************************************************)
(* src/iana.rs: the reserved entries and their Display                     *)
(***************************************************************************)
Ip(v) == [variant |-> "Ip", val |-> v]
EnterpriseId(v) == [variant |-> "EnterpriseId", val |-> v]
Software(v) == [variant |-> "Software", val |-> v]
Version(v) == [variant |-> "Version", val |-> v]

TzKnown(b) == [variant |-> "TzKnown", flag |-> b, num |-> 0]
IsSynced(b) == [variant |-> "IsSynced", flag |-> b, num |-> 0]
SyncAccuracy(n) == [variant |-> "SyncAccuracy", flag |-> FALSE, num |-> n]

\* the literals of the two Display implementations
\* ` ip="`
STR_ip == <<32, 105, 112, 61, 34>>
\* ` enterpriseId="`
STR_enterpriseId == <<32, 101, 110, 116, 101, 114, 112, 114, 105, 115, 101, 73, 100, 61, 34>>
\* ` software="`
STR_software == <<32, 115, 111, 102, 116, 119, 97, 114, 101, 61, 34>>
\* ` swVersion="`
STR_swVersion == <<32, 115, 119, 86, 101, 114, 115, 105, 111, 110, 61, 34>>
\* ` tzKnown="1"`
STR_tzKnown_1 == <<32, 116, 122, 75, 110, 111, 119, 110, 61, 34, 49, 34>>
\* ` tz_known="0"`
STR_tz_known_0 == <<32, 116, 122, 95, 107, 110, 111, 119, 110, 61, 34, 48, 34>>
\* ` isSynced="1"`
STR_isSynced_1 == <<32, 105, 115, 83, 121, 110, 99, 101, 100, 61, 34, 49, 34>>
\* ` isSynced="0"`
STR_isSynced_0 == <<32, 105, 115, 83, 121, 110, 99, 101, 100, 61, 34, 48, 34>>
\* ` syncAccuracy="`
STR_syncAccuracy == <<32, 115, 121, 110, 99, 65, 99, 99, 117, 114, 97, 99, 121, 61, 34>>

\* impl fmt::Display for Origin
Origin_to_string(o) ==
    CASE o.variant = "Ip" -> STR_ip \o o.val \o <<QUOTE>>
      [] o.variant = "EnterpriseId" -> STR_enterpriseId \o o.val \o <<QUOTE>>
      [] o.variant = "Software" -> STR_software \o o.val \o <<QUOTE>>
      [] o.variant = "Version" -> STR_swVersion \o o.val \o <<QUOTE>>

\* impl fmt::Display for TimeQuality
TimeQuality_to_string(t) ==
    CASE t.variant = "TzKnown" -> (IF t.flag THEN STR_tzKnown_1 ELSE STR_tz_known_0)
      [] t.variant = "IsSynced" -> (IF t.flag THEN STR_isSynced_1 ELSE STR_isSynced_0)
      [] t.variant = "SyncAccuracy" ->
            STR_syncAccuracy \o to_string(t.num) \o <<QUOTE>>

(***************************************************************************)
(* src/lib.rs: the configuration and its builder                           *)
(***************************************************************************)
\* a faulty variant: the header fields default to the empty string
Rfc5424_default_empty ==
    [version |-> 0,
     hostname |-> <<>>,
     app_name |-> <<>>,
     pid |-> <<>>,
     msg_id |-> <<>>,
     facility |-> FacilityUser,
     enterprise_id |-> <<>>,
     iana_time_quality |-> <<>>,
     iana_origin |-> <<>>,
     write_format |-> "RFC5424"]

\* #[derive(Default)] for Rfc5424: u8 0, the nil value in the four header
\* fields, Facility::User, "", empty vectors, WriteFormat::RFC5424
Rfc5424_default ==
    [version |-> 0,
     hostname |-> <<NILVALUE>>,
     app_name |-> <<NILVALUE>>,
     pid |-> <<NILVALUE>>,
     msg_id |-> <<NILVALUE>>,
     facility |-> FacilityUser,
     enterprise_id |-> <<>>,
     iana_time_quality |-> <<>>,
     iana_origin |-> <<>>,
     write_format |-> "RFC5424"]

\* Rfc5424Builder::new
Rfc5424Builder_new(enterprise_id, facility) ==
    [Rfc5424_default EXCEPT !.version = 1,
                            !.facility = facility,
                            !.enterprise_id = enterprise_id]

(***************************************************************************)
(* src/lib.rs: Rfc5424::format                                             *)
(***************************************************************************)
\* `[origin`
STR_origin == <<91, 111, 114, 105, 103, 105, 110>>
\* `[timeQuality`
STR_timeQuality == <<91, 116, 105, 109, 101, 81, 117, 97, 108, 105, 116, 121>>

RECURSIVE concat_origin(_)
concat_origin(os) ==
    IF os = <<>> THEN <<>>
    ELSE Origin_to_string(Head(os)) \o concat_origin(Tail(os))

RECURSIVE concat_time_quality(_)
concat_time_quality(ts) ==
    IF ts = <<>> THEN <<>>
    ELSE TimeQuality_to_string(Head(ts)) \o concat_time_quality(Tail(ts))

\* a faulty variant: a space after the priority, as the historical formatter wrote
format_header_pri_space(c, e) ==
    generate_priority(c.facility, e.severity) \o <<SP>>
    \o to_string(c.version) \o <<SP>>
    \o (IF e.timestamp.some THEN e.timestamp.val ELSE <<NILVALUE>>) \o <<SP>>
    \o c.hostname \o <<SP>>
    \o c.app_name \o <<SP>>
    \o c.pid \o <<SP>>
    \o c.msg_id \o <<SP>>

\* the HEADER part of `log`: PRI, VERSION, TIMESTAMP, HOSTNAME, APP-NAME,
\* PROCESS ID, MESSAGE ID
format_header(c, e) ==
    generate_priority(c.facility, e.severity)
    \o to_string(c.version) \o <<SP>>
    \o (IF e.timestamp.some THEN e.timestamp.val ELSE <<NILVALUE>>) \o <<SP>>
    \o c.hostname \o <<SP>>
    \o c.app_name \o <<SP>>
    \o c.pid \o <<SP>>
    \o c.msg_id \o <<SP>>

\* a faulty variant: the timeQuality block is written before the origin block
format_reserved_time_first(c) ==
    (IF c.iana_time_quality # <<>>
     THEN STR_timeQuality \o concat_time_quality(c.iana_time_quality)
          \o <<RBRACKET>>
     ELSE <<>>)
    \o (IF c.iana_origin # <<>>
        THEN STR_origin \o concat_origin(c.iana_origin) \o <<RBRACKET>>
        ELSE <<>>)

\* the two reserved blocks
format_reserved(c) ==
    (IF c.iana_origin # <<>>
     THEN STR_origin \o concat_origin(c.iana_origin) \o <<RBRACKET>>
     ELSE <<>>)
    \o (IF c.iana_time_quality # <<>>
        THEN STR_timeQuality \o concat_time_quality(c.iana_time_quality)
             \o <<RBRACKET>>
        ELSE <<>>)

\* a faulty variant: a pair whose name was written before is left out
RECURSIVE format_pairs_skip_duplicates(_)
format_pairs_skip_duplicates(pairs) ==
    IF pairs = <<>> THEN <<>>
    ELSE <<SP>> \o remove_invalid(Head(pairs)[1]) \o <<EQUALS, QUOTE>>
         \o escape_val(Head(pairs)[2]) \o <<QUOTE>>
         \o format_pairs_skip_duplicates(
                SelectSeq(Tail(pairs), LAMBDA q : q[1] # Head(pairs)[1]))

\* the params of one element: for (name, val) in pairs
RECURSIVE format_pairs(_)
format_pairs(pairs) ==
    IF pairs = <<>> THEN <<>>
    ELSE <<SP>> \o remove_invalid(Head(pairs)[1]) \o <<EQUALS, QUOTE>>
         \o escape_val(Head(pairs)[2]) \o <<QUOTE>>
         \o format_pairs(Tail(pairs))

\* the closure of sd.iter().for_each: one element
format_element(c, id, pairs) ==
    <<LBRACKET>> \o remove_invalid(id) \o <<AT>> \o c.enterprise_id
    \o format_pairs(pairs) \o <<RBRACKET>>

\* a faulty variant: only the entry visited first is written
format_elements_first_only(c, sd, order) ==
    IF order = <<>> THEN <<>>
    ELSE format_element(c, Head(order), sd[Head(order)])

\* sd.iter().for_each, the map `sd` visited in the order `order`
RECURSIVE format_elements(_, _, _)
format_elements(c, sd, order) ==
    IF order = <<>> THEN <<>>
    ELSE format_element(c, Head(order), sd[Head(order)])
         \o format_elements(c, sd, Tail(order))

\* "must use NILVALUE if we don't have any structured data"
format_nil(c, e) ==
    IF ~e.structured_data.some
       /\ c.iana_origin = <<>>
       /\ c.iana_time_quality = <<>>
    THEN <<NILVALUE>>
    ELSE <<>>

\* the STRUCTURED-DATA part of `log`
format_structured(c, e, order) ==
    format_reserved(c)
    \o (IF e.structured_data.some
        THEN format_elements(c, e.structured_data.val, order)
        ELSE <<>>)
    \o format_nil(c, e)

\* a faulty variant: the space before the body is written whether or not there is one
format_log_trailing_space(c, e, order) ==
    format_header(c, e) \o format_structured(c, e, order) \o <<SP>>

\* `log` when the writes begin: header, structured data and, when there is a
\* message, the space pushed by the closure that computes msg_len
format_log(c, e, order) ==
    format_header(c, e)
    \o format_structured(c, e, order)
    \o (IF e.message.tag # "None" THEN <<SP>> ELSE <<>>)

\* the text of a Message::Text as the bytes of a String
text_bytes(m) == as_bytes(m.data)

\* a faulty variant: the order marker is not counted
msg_len_no_bom(m) ==
    IF m.tag = "Text" THEN Len(text_bytes(m)) ELSE Len(m.data)

\* msg_len, for a message that is present
msg_len(m) ==
    IF m.tag = "Text" THEN Len(text_bytes(m)) + 3 ELSE Len(m.data)

\* `length` of the RFC5425 branch
format_length(l, m) ==
    IF m.tag # "None" THEN Len(as_bytes(l)) + msg_len(m) ELSE Len(as_bytes(l))

\* a faulty variant: the order marker is written before every body
format_writes_bom_always(c, l, m) ==
    (IF c.write_format = "RFC5425"
     THEN << as_bytes(to_string(format_length(l, m)) \o <<SP>>) >>
     ELSE <<>>)
    \o << as_bytes(l) >>
    \o (CASE m.tag = "Text" -> << BOM, text_bytes(m) >>
          [] m.tag = "Binary" -> << BOM, m.data >>
          [] m.tag = "None" -> <<>>)

\* the buffers given to writer.write_all, in the order of the calls
format_writes(c, l, m) ==
    (IF c.write_format = "RFC5425"
     THEN << as_bytes(to_string(format_length(l, m)) \o <<SP>>) >>
     ELSE <<>>)
    \o << as_bytes(l) >>
    \o (CASE m.tag = "Text" -> << BOM, text_bytes(m) >>
          [] m.tag = "Binary" -> << m.data >>
          [] m.tag = "None" -> <<>>)

\* the bytes of the first n buffers
RECURSIVE written(_, _)
written(w, n) ==
    IF n = 0 THEN <<>> ELSE written(w, n - 1) \o w[n]

\* What the sink may do to the writes w: accept them all, or fail one.
\* write_all of an empty buffer returns Ok without calling the sink.  A sink
\* that fails returns its error at once (BrokenPipe), or first takes a proper
\* prefix of the buffer and then takes nothing more (write_all: WriteZero).
sink_outcomes(w) ==
    {[at |-> 0, part |-> 0, err |-> ""]}
    \cup UNION {{[at |-> k, part |-> 0, err |-> "BrokenPipe"],
                 [at |-> k, part |-> Len(w[k]) - 1, err |-> "WriteZero"]} :
                k \in {j \in 1 .. Len(w) : w[j] # <<>>}}

\* a faulty variant: the error of a write is kept and the later writes are
\* still issued
format_accepted_continues(w, out) ==
    IF out.at = 0
    THEN written(w, Len(w))
    ELSE written(w, out.at - 1) \o take(w[out.at], out.part)
         \o written([i \in 1 .. (Len(w) - out.at) |-> w[out.at + i]],
                    Len(w) - out.at)

\* the bytes the sink has taken when format returns: every write_all is
\* followed by `?`, so the first failure ends the call
format_accepted(w, out) ==
    IF out.at = 0
    THEN written(w, Len(w))
    ELSE written(w, out.at - 1) \o take(w[out.at], out.part)

\* the value format returns: Ok(()), or the error of the failed write
format_result(out) == IF out.at = 0 THEN Ok(<<>>) ELSE Err(out.err)

\* the orders in which a map with the keys ids may be iterated
iter_orders(ids) ==
    {o \in [1 .. Cardinality(ids) -> ids] :
        \A i, j \in 1 .. Cardinality(ids) : i # j => o[i] # o[j]}

(***************************************************************************)
(* The state of the caller before any call, and the values the variables   *)
(* of the builder and the formatter keep while a pure function is checked. *)
(***************************************************************************)
None == [some |-> FALSE, val |-> <<>>]
Some(v) == [some |-> TRUE, val |-> v]

NoCall ==
    /\ builder = <<>>
    /\ cfg = <<>>
    /\ ev = <<>>
    /\ iter = <<>>
    /\ log = <<>>
    /\ sink = <<>>
    /\ result = <<>>
    /\ call = <<>>
    /\ fault = <<>>
    /\ prev = <<>>
    /\ callers = <<>>

mainVars == <<builder, cfg, ev, iter, log, sink, result, call, fault, prev, callers>>

\* the strings of length 0 .. n over the characters of set S
RECURSIVE StringsUpTo(_, _)
StringsUpTo(S, n) ==
    IF n = 0 THEN {<<>>}
    ELSE LET shorter == StringsUpTo(S, n - 1)
         IN  shorter \cup {Append(s, c) : s \in shorter, c \in S}

(***************************************************************************)
(* The caller: a builder chain, build, then format calls on the built      *)
(* configuration, each with its own event and its own, empty, sink.        *)
(***************************************************************************)
\* n letters 'a', the one at position p replaced by c
OneOdd(n, p, c) == [i \in 1 .. n |-> IF i = p THEN c ELSE 97]

\* enterprise id "7" with Facility::User, enterprise id U+00E9 (two bytes) with
\* Facility::Local7
NewArgs == {<< <<55>>, FacilityUser >>, << <<233>>, FacilityLocal7 >>}

\* "", "h", "g"
HostNameArgs == {<<>>, <<104>>, <<103>>}
\* "a", "a " (a space is not graphic)
AppNameArgs == {<<97>>, <<97, 32>>}
\* "1", and one character more than the cap
ProcessIdArgs == {<<49>>, OneOdd(ProcessIdMax + 1, 0, 97)}
\* "m", and one character more than the cap
MessageIdArgs == {<<109>>, OneOdd(MessageIdMax + 1, 0, 97)}

\* Origin::Ip("1"), Origin::Software("s")
OriginArgs == {Ip(<<49>>), Software(<<115>>)}
\* TimeQuality::TzKnown(false)
TimeQualityArgs == {TzKnown(FALSE)}

WriteFormats == {"RFC5424", "RFC5425"}

\* (Debug, no timestamp), (Error, timestamp "T")
EventHeads ==
    {[severity |-> SeverityDebug, timestamp |-> None],
     [severity |-> SeverityError, timestamp |-> Some(<<84>>)]}

\* one identifier `a]` with the pair (`k=`, `U+00E9 "`)
SdOne == (<<97, 93>> :> << << <<107, 61>>, <<233, 34>> >> >>)

\* two identifiers that remove_invalid makes equal: `x` with the pairs
\* (`k`, `1`) and (`k`, `\`), and `x ` with no pair
SdTwo ==
    (<<120>> :> << << <<107>>, <<49>> >>, << <<107>>, <<92>> >> >>)
    @@ (<<120, 32>> :> <<>>)

\* no structured data, an empty map, one identifier, two identifiers
EventSds == {None, Some(<<>>), Some(SdOne), Some(SdTwo)}

Text(t) == [tag |-> "Text", data |-> t]
Binary(b) == [tag |-> "Binary", data |-> b]
NoMessage == [tag |-> "None", data |-> <<>>]

\* no body, the empty text, the text "m" U+00E9 (three bytes), two bytes that
\* are not UTF-8
EventMessages == {NoMessage, Text(<<>>), Text(<<109, 233>>), Binary(<<255, 0>>)}

Events ==
    {[severity |-> h.severity, timestamp |-> h.timestamp,
      structured_data |-> sd, message |-> m] :
        h \in EventHeads, sd \in EventSds, m \in EventMessages}

Init ==
    /\ pc = "start"
    /\ NoCall
    /\ arg = <<>>
    /\ ret = <<>>

\* Rfc5424Builder::new(enterprise_id, facility)
BuilderNew ==
    /\ pc = "start"
    /\ \E a \in NewArgs :
          /\ builder' = Rfc5424Builder_new(a[1], a[2])
          /\ call' = [op |-> "new", val |-> a]
    /\ pc' = "building"
    /\ UNCHANGED <<cfg, ev, iter, log, sink, result, fault, prev, callers, arg, ret>>

\* Rfc5424::default(), derived
DefaultConfig ==
    /\ pc = "start"
    /\ cfg' = Rfc5424_default
    /\ pc' = "built"
    /\ call' = [op |-> "default", val |-> <<>>]
    /\ UNCHANGED <<builder, ev, iter, log, sink, result, fault, prev,
                   callers, arg, ret>>

\* a faulty variant: a setter starts again from the config of new()
Staged_reset(field, val, r) ==
    /\ pc = "building"
    /\ IF r.ok
       THEN /\ builder' = [Rfc5424Builder_new(builder.enterprise_id,
                                               builder.facility)
                              EXCEPT ![field] = r.val]
            /\ pc' = "building"
            /\ result' = Ok(<<>>)
       ELSE /\ builder' = <<>>
            /\ pc' = "failed"
            /\ result' = r
    /\ call' = [op |-> field, val |-> val]
    /\ UNCHANGED <<cfg, ev, iter, log, sink, fault, prev, callers, arg, ret>>

\* A fallible setter called with val returned r: on Ok the staged field is replaced, on Err
\* the `?` returns the error and the builder, moved into the call, is dropped.
Staged(field, val, r) ==
    /\ pc = "building"
    /\ IF r.ok
       THEN /\ builder' = [builder EXCEPT ![field] = r.val]
            /\ pc' = "building"
            /\ result' = Ok(<<>>)
       ELSE /\ builder' = <<>>
            /\ pc' = "failed"
            /\ result' = r
    /\ call' = [op |-> field, val |-> val]
    /\ UNCHANGED <<cfg, ev, iter, log, sink, fault, prev, callers, arg, ret>>

\* Rfc5424Builder::hostname
hostname == \E val \in HostNameArgs : Staged("hostname", val, HostName_new(val))

\* Rfc5424Builder::app_name
app_name == \E val \in AppNameArgs : Staged("app_name", val, AppName_new(val))

\* Rfc5424Builder::pid
pid == \E val \in ProcessIdArgs : Staged("pid", val, ProcessId_new(val))

\* Rfc5424Builder::msg_id
msg_id == \E val \in MessageIdArgs : Staged("msg_id", val, MessageId_new(val))

\* Rfc5424Builder::write_format
write_format ==
    /\ pc = "building"
    /\ \E f \in WriteFormats :
          /\ builder' = [builder EXCEPT !.write_format = f]
          /\ call' = [op |-> "write_format", val |-> f]
    /\ UNCHANGED <<pc, cfg, ev, iter, log, sink, result, fault, prev, callers,
                   arg, ret>>

ReservedCount(b) == Len(b.iana_origin) + Len(b.iana_time_quality)

\* Rfc5424Builder::origin
origin ==
    /\ pc = "building"
    /\ ReservedCount(builder) < MaxReserved
    /\ \E o \in OriginArgs :
          /\ builder' = [builder EXCEPT !.iana_origin = Append(@, o)]
          /\ call' = [op |-> "origin", val |-> o]
    /\ UNCHANGED <<pc, cfg, ev, iter, log, sink, result, fault, prev, callers,
                   arg, ret>>

\* Rfc5424Builder::time_quality
time_quality ==
    /\ pc = "building"
    /\ ReservedCount(builder) < MaxReserved
    /\ \E t \in TimeQualityArgs :
          /\ builder' = [builder EXCEPT !.iana_time_quality = Append(@, t)]
          /\ call' = [op |-> "time_quality", val |-> t]
    /\ UNCHANGED <<pc, cfg, ev, iter, log, sink, result, fault, prev, callers,
                   arg, ret>>

\* Rfc5424Builder::build
build ==
    /\ pc = "building"
    /\ cfg' = builder
    /\ builder' = <<>>
    /\ pc' = "built"
    /\ call' = [op |-> "build", val |-> <<>>]
    /\ UNCHANGED <<ev, iter, log, sink, result, fault, prev, callers, arg, ret>>

\* Rfc5424::format(&self, writer, message): the event e, its map iterated in
\* the order o, and a sink that accepts every write or fails one of them.  The
\* `?` after each write_all returns at the first failure.
format ==
    /\ pc = "built"
    /\ \E e \in Events :
       \E o \in iter_orders(DOMAIN e.structured_data.val) :
       \E l \in {format_log(cfg, e, o)} :
       \E w \in {format_writes(cfg, l, e.message)} :
       \E out \in sink_outcomes(w) :
          /\ ev' = e
          /\ iter' = o
          /\ log' = l
          /\ fault' = out
          /\ sink' = format_accepted(w, out)
          /\ result' = format_result(out)
    /\ pc' = "formatted"
    /\ UNCHANGED <<builder, cfg, call, prev, callers, arg, ret>>

Next ==
    \/ BuilderNew
    \/ DefaultConfig
    \/ hostname
    \/ app_name
    \/ pid
    \/ msg_id
    \/ write_format
    \/ origin
    \/ time_quality
    \/ build
    \/ format

Spec == Init /\ [][Next]_vars

(***************************************************************************)
(* Two format calls on one built configuration with the same event: the    *)
(* event hands out its map anew in each call (structured_data() returns an *)
(* owned HashMap), and each call has its own sink.                         *)
(***************************************************************************)
\* the configurations of the chains new(..).write_format(f).build(), and the
\* derived default
TwiceConfigs ==
    {[Rfc5424Builder_new(a[1], a[2]) EXCEPT !.write_format = f] :
        a \in NewArgs, f \in WriteFormats}
    \cup {Rfc5424_default}

InitTwice ==
    /\ pc = "built"
    /\ cfg \in TwiceConfigs
    /\ builder = <<>>
    /\ ev = <<>>
    /\ iter = <<>>
    /\ log = <<>>
    /\ sink = <<>>
    /\ result = <<>>
    /\ call = [op |-> "build", val |-> <<>>]
    /\ fault = <<>>
    /\ prev = <<>>
    /\ callers = <<>>
    /\ arg = <<>>
    /\ ret = <<>>

\* Rfc5424::format once more, with the event of the call before
format_again ==
    /\ pc = "formatted"
    /\ \E o \in iter_orders(DOMAIN ev.structured_data.val) :
       \E l \in {format_log(cfg, ev, o)} :
       \E w \in {format_writes(cfg, l, ev.message)} :
       \E out \in sink_outcomes(w) :
          /\ iter' = o
          /\ log' = l
          /\ fault' = out
          /\ sink' = format_accepted(w, out)
          /\ result' = format_result(out)
    /\ prev' = [iter |-> iter, sink |-> sink, result |-> result]
    /\ pc' = "formatted_again"
    /\ UNCHANGED <<builder, cfg, ev, call, callers, arg, ret>>

NextTwice ==
    \/ format
    \/ format_again

SpecTwice == InitTwice /\ [][NextTwice]_vars

(***************************************************************************)
(* Several callers in format(&self, ..) on one built configuration at the  *)
(* same time.  A caller's steps are the statements of format: it creates   *)
(* its `log`, pushes the header, the reserved blocks, the elements and the *)
(* space before the body, and then issues its writes one by one; the steps *)
(* of the callers interleave in every way.  Each caller has its own event  *)
(* and its own sink, which accepts every write.                            *)
(***************************************************************************)
Callers == 1 .. NCallers

\* a faulty variant: the callers push into one buffer
log_owner_shared(i) == 1

\* `let mut log = ...` is a local of the call: caller i pushes into buffer i
log_owner(i) == i

\* a configuration with a reserved block next to those without
SharedConfigs ==
    TwiceConfigs
    \cup {[Rfc5424Builder_new(<<55>>, FacilityUser)
              EXCEPT !.iana_origin = <<Ip(<<49>>)>>]}

\* a text body without structured data, two identifiers with a binary body,
\* one identifier without body
SharedEvents ==
    {e \in Events :
        \/ /\ e.severity = SeverityDebug
           /\ ~e.structured_data.some
           /\ e.message = Text(<<109, 233>>)
        \/ /\ e.severity = SeverityError
           /\ e.structured_data = Some(SdTwo)
           /\ e.message = Binary(<<255, 0>>)
        \/ /\ e.severity = SeverityError
           /\ e.structured_data = Some(SdOne)
           /\ e.message = NoMessage}

InitShared ==
    /\ pc = "shared"
    /\ cfg \in SharedConfigs
    /\ callers = [i \in Callers |->
                    [at |-> "idle", ev |-> <<>>, iter |-> <<>>, sink |-> <<>>,
                     n |-> 0]]
    /\ log = [i \in Callers |-> <<>>]
    /\ builder = <<>>
    /\ ev = <<>>
    /\ iter = <<>>
    /\ sink = <<>>
    /\ result = <<>>
    /\ call = [op |-> "build", val |-> <<>>]
    /\ fault = <<>>
    /\ prev = <<>>
    /\ arg = <<>>
    /\ ret = <<>>

sharedFrame == <<pc, builder, cfg, ev, iter, sink, result, call, fault, prev, arg, ret>>

\* caller i enters format with its event: `log` is created empty
Enter(i) ==
    /\ callers[i].at = "idle"
    /\ \E e \in SharedEvents :
       \E o \in iter_orders(DOMAIN e.structured_data.val) :
          callers' = [callers EXCEPT ![i] =
                         [at |-> "header", ev |-> e, iter |-> o, sink |-> <<>>,
                          n |-> 0]]
    /\ log' = [log EXCEPT ![log_owner(i)] = <<>>]
    /\ UNCHANGED sharedFrame

\* caller i at `from` pushes `bytes` into its log and moves on to `to`
Push(i, from, to, bytes) ==
    /\ callers[i].at = from
    /\ log' = [log EXCEPT ![log_owner(i)] = @ \o bytes]
    /\ callers' = [callers EXCEPT ![i].at = to]
    /\ UNCHANGED sharedFrame

PushHeader(i) ==
    Push(i, "header", "reserved", format_header(cfg, callers[i].ev))

PushReserved(i) ==
    Push(i, "reserved", "elements", format_reserved(cfg))

PushElements(i) ==
    Push(i, "elements", "space",
         (IF callers[i].ev.structured_data.some
          THEN format_elements(cfg, callers[i].ev.structured_data.val,
                               callers[i].iter)
          ELSE <<>>)
         \o format_nil(cfg, callers[i].ev))

PushSpace(i) ==
    Push(i, "space", "write",
         IF callers[i].ev.message.tag # "None" THEN <<SP>> ELSE <<>>)

\* caller i issues its next write_all, with what its log holds now
Write(i) ==
    /\ callers[i].at = "write"
    /\ \E w \in {format_writes(cfg, log[log_owner(i)], callers[i].ev.message)} :
          callers' = [callers EXCEPT
                         ![i].sink = @ \o w[callers[i].n + 1],
                         ![i].n = @ + 1,
                         ![i].at = IF callers[i].n + 1 = Len(w)
                                   THEN "done" ELSE "write"]
    /\ UNCHANGED log
    /\ UNCHANGED sharedFrame

NextShared ==
    \E i \in Callers :
        \/ Enter(i)
        \/ PushHeader(i)
        \/ PushReserved(i)
        \/ PushElements(i)
        \/ PushSpace(i)
        \/ Write(i)

SpecShared == InitShared /\ [][NextShared]_vars

(***************************************************************************)
(* Display of the reserved entries on every variant: the four origins with *)
(* values over `1`, `.` and `"`, the two flags, and accuracies of one to   *)
(* ten digits.                                                             *)
(***************************************************************************)
IanaValues == StringsUpTo({49, 46, 34}, MaxValLen)

IanaInputs ==
    {Ip(v) : v \in IanaValues}
    \cup {EnterpriseId(v) : v \in IanaValues}
    \cup {Software(v) : v \in IanaValues}
    \cup {Version(v) : v \in IanaValues}
    \cup {TzKnown(b) : b \in BOOLEAN}
    \cup {IsSynced(b) : b \in BOOLEAN}
    \cup {SyncAccuracy(n) : n \in {0, 1, 10, 2147483647}}

InitIana ==
    /\ pc = "input"
    /\ arg \in IanaInputs
    /\ ret = <<>>
    /\ NoCall

\* format!("{}", origin)
OriginDisplayCall ==
    /\ pc = "input"
    /\ arg.variant \in {"Ip", "EnterpriseId", "Software", "Version"}
    /\ ret' = Origin_to_string(arg)
    /\ pc' = "output"
    /\ UNCHANGED <<arg, mainVars>>

\* format!("{}", time_quality)
TimeQualityDisplayCall ==
    /\ pc = "input"
    /\ arg.variant \in {"TzKnown", "IsSynced", "SyncAccuracy"}
    /\ ret' = TimeQuality_to_string(arg)
    /\ pc' = "output"
    /\ UNCHANGED <<arg, mainVars>>

NextIana ==
    \/ OriginDisplayCall
    \/ TimeQualityDisplayCall

SpecIana == InitIana /\ [][NextIana]_vars

(***************************************************************************)
(* generate_priority on every facility and severity.                       *)
(***************************************************************************)
InitPri ==
    /\ pc = "input"
    /\ arg \in [facility : Facility, severity : Severity]
    /\ ret = <<>>
    /\ NoCall

PriorityCall ==
    /\ pc = "input"
    /\ ret' = generate_priority(arg.facility, arg.severity)
    /\ pc' = "output"
    /\ UNCHANGED <<arg, mainVars>>

NextPri == PriorityCall

SpecPri == InitPri /\ [][NextPri]_vars

(***************************************************************************)
(* The four header-field constructors, on inputs around each cap.          *)
(***************************************************************************)
HeaderCaps == {HostNameMax, AppNameMax, ProcessIdMax, MessageIdMax}

HeaderLengths ==
    {0, 1, 2} \cup UNION {(c - 1) .. (c + MaxOver) : c \in HeaderCaps}

\* '!' and '~' are the first and last graphic characters; space, DEL, TAB and
\* U+00E9 (two bytes in UTF-8) are not graphic
HeaderOdd == {33, 126, 32, 127, 9, 233}

HeaderInputs ==
    {OneOdd(n, 0, 97) : n \in HeaderLengths}
    \cup UNION {{OneOdd(n, p, c) : p \in {1, n}, c \in HeaderOdd} :
                n \in HeaderLengths \ {0}}

HeaderKinds == {"HostName", "AppName", "ProcessId", "MessageId"}

InitFields ==
    /\ pc = "input"
    /\ arg \in [kind : HeaderKinds, value : HeaderInputs]
    /\ ret = <<>>
    /\ NoCall

HostNameNewCall ==
    /\ pc = "input"
    /\ arg.kind = "HostName"
    /\ ret' = HostName_new(arg.value)
    /\ pc' = "output"
    /\ UNCHANGED <<arg, mainVars>>

AppNameNewCall ==
    /\ pc = "input"
    /\ arg.kind = "AppName"
    /\ ret' = AppName_new(arg.value)
    /\ pc' = "output"
    /\ UNCHANGED <<arg, mainVars>>

ProcessIdNewCall ==
    /\ pc = "input"
    /\ arg.kind = "ProcessId"
    /\ ret' = ProcessId_new(arg.value)
    /\ pc' = "output"
    /\ UNCHANGED <<arg, mainVars>>

MessageIdNewCall ==
    /\ pc = "input"
    /\ arg.kind = "MessageId"
    /\ ret' = MessageId_new(arg.value)
    /\ pc' = "output"
    /\ UNCHANGED <<arg, mainVars>>

NextFields ==
    \/ HostNameNewCall
    \/ AppNameNewCall
    \/ ProcessIdNewCall
    \/ MessageIdNewCall

SpecFields == InitFields /\ [][NextFields]_vars

(***************************************************************************)
(* escape_val on every short string over the three escaped characters and  *)
(* a letter.                                                               *)
(***************************************************************************)
EscapeInputs == StringsUpTo({BACKSLASH, QUOTE, RBRACKET, 97}, MaxValLen)

InitEscape ==
    /\ pc = "input"
    /\ arg \in EscapeInputs
    /\ ret = <<>>
    /\ NoCall

EscapeCall ==
    /\ pc = "input"
    /\ ret' = escape_val(arg)
    /\ pc' = "output"
    /\ UNCHANGED <<arg, mainVars>>

NextEscape == EscapeCall

SpecEscape == InitEscape /\ [][NextEscape]_vars

(***************************************************************************)
(* remove_invalid on names shorter and longer than 32 characters: a short  *)
(* pattern repeated to the length wanted.                                  *)
(***************************************************************************)
\* '!' and '~' are kept; '=', space, ']', '"' are removed by name; U+00E9 is
\* not ASCII
NameAlphabet == {33, 126, 61, 32, 93, 34, 233}

NamePatterns == StringsUpTo(NameAlphabet, MaxPat) \ {<<>>}

Repeat(pat, n) == [i \in 1 .. n |-> pat[((i - 1) % Len(pat)) + 1]]

NameInputs == {Repeat(pat, n) : pat \in NamePatterns, n \in 0 .. MaxNameLen}

InitNames ==
    /\ pc = "input"
    /\ arg \in NameInputs
    /\ ret = <<>>
    /\ NoCall

RemoveInvalidCall ==
    /\ pc = "input"
    /\ ret' = remove_invalid(arg)
    /\ pc' = "output"
    /\ UNCHANGED <<arg, mainVars>>

NextNames == RemoveInvalidCall

SpecNames == InitNames /\ [][NextNames]_vars

(***************************************************************************)
(* Claims about the output of Rfc5424::format.                             *)
(***************************************************************************)
IsDigit(c) == c >= 48 /\ c <= 57

\* the number a string of decimal digits denotes
RECURSIVE ParseDecimal(_)
ParseDecimal(d) ==
    IF d = <<>> THEN 0
    ELSE 10 * ParseDecimal(SubSeq(d, 1, Len(d) - 1)) + (d[Len(d)] - 48)

\* d is a number in decimal with no padding
Unpadded(d) ==
    /\ Len(d) >= 1
    /\ \A i \in 1 .. Len(d) : IsDigit(d[i])
    /\ (Len(d) > 1 => d[1] # 48)

\* the first position of s that holds c
FirstIndex(s, c) ==
    CHOOSE i \in 1 .. Len(s) : s[i] = c /\ \A j \in 1 .. (i - 1) : s[j] # c

\* the bytes of the event's body as they follow the space
BodyBytes(m) ==
    IF m.tag = "Text" THEN <<239, 187, 191>> \o as_bytes(m.data) ELSE m.data

\* format returned Ok
Formatted == pc = "formatted" /\ result.ok

\* C1: the unframed output is `<PRI>` immediately followed by the version
\* digits, then SP timestamp-or-'-' SP hostname SP app-name SP pid SP msg-id
\* SP structured-data, and then SP and the body if and only if the event has a
\* body; the timestamp is written verbatim.
C1_WireFormat ==
    (Formatted /\ cfg.write_format = "RFC5424") =>
        sink = as_bytes(
                  <<60>> \o to_string(cfg.facility * 8 + ev.severity) \o <<62>>
                  \o to_string(cfg.version)
                  \o <<32>> \o (IF ev.timestamp.some THEN ev.timestamp.val ELSE <<45>>)
                  \o <<32>> \o cfg.hostname
                  \o <<32>> \o cfg.app_name
                  \o <<32>> \o cfg.pid
                  \o <<32>> \o cfg.msg_id
                  \o <<32>> \o format_structured(cfg, ev, iter))
               \o (IF ev.message.tag = "None" THEN <<>>
                   ELSE <<32>> \o BodyBytes(ev.message))

\* C1 witness: an unframed message with a timestamp, a set hostname, two
\* elements and no body was written, and does not end in a space
C1_Witness ==
    /\ Formatted
    /\ cfg.write_format = "RFC5424"
    /\ ev.timestamp.some
    /\ cfg.hostname # <<45>>
    /\ Len(iter) = 2
    /\ ev.message.tag = "None"
    /\ sink[Len(sink)] = 93

\* the output from the `<` of the priority on
FromPri(out) == SubSeq(out, FirstIndex(out, 60), Len(out))

\* C2 as stated: the priority token `<N>` is followed by a space before the
\* version number.
C2_Original ==
    Formatted =>
        LET m == FromPri(sink)
        IN  m[FirstIndex(m, 62) + 1] = 32

\* C2 as amended: the priority token `<N>` is followed immediately by the
\* version number, with no space between them, and the version number is
\* followed by a space.
C2_PriThenVersion ==
    Formatted =>
        LET m == FromPri(sink)
            gt == FirstIndex(m, 62)
            v == to_string(cfg.version)
        IN  /\ SubSeq(m, gt + 1, gt + Len(v)) = v
            /\ m[gt + 1] # 32
            /\ m[gt + Len(v) + 1] = 32

\* C2 witness: a framed message of a built configuration begins, after its
\* count, with `<15>1 `
C2_Witness ==
    /\ Formatted
    /\ cfg.write_format = "RFC5425"
    /\ cfg.version = 1
    /\ SubSeq(FromPri(sink), 1, 6) = <<60, 49, 53, 62, 49, 32>>

\* the structured-data section of `log`: what follows the seven header fields,
\* without the space that precedes a body
SdSection ==
    SubSeq(log, Len(format_header(cfg, ev)) + 1,
           Len(log) - (IF ev.message.tag = "None" THEN 0 ELSE 1))

\* the event supplies no structured-data element
NoElements == ~ev.structured_data.some \/ DOMAIN ev.structured_data.val = {}

\* C4: the structured-data section is never the empty string: it is the nil
\* sentinel '-' when the event supplies no structured-data elements and both
\* reserved blocks are empty, and otherwise one or more bracketed elements
\* with no nil sentinel.
C4_Original ==
    pc = "formatted" =>
        /\ SdSection # <<>>
        /\ IF NoElements /\ cfg.iana_origin = <<>> /\ cfg.iana_time_quality = <<>>
           THEN SdSection = <<45>>
           ELSE /\ SdSection # <<>>
                /\ SdSection[1] = 91
                /\ SdSection[Len(SdSection)] = 93

\* C5: in RFC5425 format the output is a decimal count, one space, then the
\* message, and the count is the number of bytes written after that space; in
\* RFC5424 format, the builder's default, no count is written.
C5_FramedCount ==
    /\ pc = "building" =>
          \A a \in NewArgs :
             Rfc5424Builder_new(a[1], a[2]).write_format = "RFC5424"
    /\ (Formatted /\ cfg.write_format = "RFC5424") => sink[1] = 60
    /\ (Formatted /\ cfg.write_format = "RFC5425") =>
          LET sp == FirstIndex(sink, 32)
              count == SubSeq(sink, 1, sp - 1)
              rest == SubSeq(sink, sp + 1, Len(sink))
          IN  /\ Unpadded(count)
              /\ ParseDecimal(count) = Len(rest)
              /\ rest[1] = 60
              /\ rest = as_bytes(log)
                        \o (IF ev.message.tag = "None" THEN <<>>
                            ELSE BodyBytes(ev.message))

\* C5 witness: a framed message whose enterprise id, parameter value and text
\* body each hold a two-byte character was written
C5_Witness ==
    /\ Formatted
    /\ cfg.write_format = "RFC5425"
    /\ cfg.enterprise_id = <<233>>
    /\ ev.structured_data = Some(SdOne)
    /\ ev.message = Text(<<109, 233>>)
    /\ Len(sink) > Len(log) + Len(ev.message.data) + 3

\* the positions of out at which the three bytes EF BB BF begin
BomAt(out) ==
    {i \in 1 .. (Len(out) - 2) : SubSeq(out, i, i + 2) = <<239, 187, 191>>}

\* C11: when the event has a body, format writes one space and then, for a
\* text, the bytes EF BB BF and the UTF-8 bytes of the text, and for a binary
\* body its raw bytes with no order marker; the order marker is never written
\* for a binary body or when there is no body.
C11_Body ==
    Formatted =>
        LET m == ev.message
            body == CASE m.tag = "Text" -> <<239, 187, 191>> \o as_bytes(m.data)
                      [] m.tag = "Binary" -> m.data
                      [] m.tag = "None" -> <<>>
            k == Len(sink) - Len(body)
        IN  /\ k >= 1
            /\ SubSeq(sink, k + 1, Len(sink)) = body
            /\ m.tag # "None" => sink[k] = 32
            /\ BomAt(sink) = IF m.tag = "Text" THEN {k + 1} ELSE {}

\* C11 witness: the text "m" U+00E9 was written as a space, the order marker
\* and the four bytes 6D C3 A9 of its UTF-8 form
C11_Witness ==
    /\ Formatted
    /\ ev.message = Text(<<109, 233>>)
    /\ Len(sink) > 7
    /\ SubSeq(sink, Len(sink) - 6, Len(sink)) = <<32, 239, 187, 191, 109, 195, 169>>

\* the buffers of one message in the order the claim gives: the length
\* prefix (framed mode only), the header with the structured data, the order
\* marker, the body
ClaimedWrites ==
    LET m == ev.message
        head == as_bytes(log)
        tail == CASE m.tag = "Text" -> << <<239, 187, 191>>, as_bytes(m.data) >>
                  [] m.tag = "Binary" -> << m.data >>
                  [] m.tag = "None" -> <<>>
        rest == Len(head) + (IF m.tag = "None" THEN 0 ELSE Len(BodyBytes(m)))
    IN  (IF cfg.write_format = "RFC5425"
         THEN << as_bytes(to_string(rest) \o <<32>>) >>
         ELSE <<>>)
        \o << head >> \o tail

\* the bytes of the buffers w[1] .. w[n], one after the other
RECURSIVE Joined(_, _)
Joined(w, n) == IF n = 0 THEN <<>> ELSE Joined(w, n - 1) \o w[n]

\* C12: format returns an error if and only if a write to the sink fails, and
\* it returns that write's error; the writes are issued in the order length
\* prefix, header with structured data, order marker, body; after the first
\* failed write none is issued and none is retried, so the bytes the sink
\* accepted are a prefix of the full message.
C12_WriteFailure ==
    pc = "formatted" =>
        LET w == ClaimedWrites
            full == Joined(w, Len(w))
        IN  /\ result.ok <=> fault.at = 0
            /\ ~result.ok => result.err = fault.err
            /\ result.ok => sink = full
            /\ ~result.ok =>
                  /\ fault.at \in 1 .. Len(w)
                  /\ sink = Joined(w, fault.at - 1)
                            \o SubSeq(w[fault.at], 1, fault.part)
                  /\ Len(sink) < Len(full)
            /\ sink = SubSeq(full, 1, Len(sink))

\* C12 witness: the sink of a framed text message failed the write of the
\* order marker after taking two of its bytes, and format returned that error
C12_Witness ==
    /\ pc = "formatted"
    /\ cfg.write_format = "RFC5425"
    /\ ev.message = Text(<<109, 233>>)
    /\ fault.at = 3
    /\ fault.part = 2
    /\ result = Err("WriteZero")
    /\ SubSeq(sink, Len(sink) - 1, Len(sink)) = <<239, 187>>

\* both of two format calls with the same event returned Ok
FormattedTwice == pc = "formatted_again" /\ result.ok /\ prev.result.ok

\* C13 as stated: formatting the same built config against the same event
\* twice yields byte-identical output, also when the structured data holds
\* more than one identifier.
C13_Original == FormattedTwice => sink = prev.sink

\* C13 as amended: the two outputs are byte-identical when the structured data
\* holds at most one identifier, and whenever the map was iterated in the same
\* order in both calls; in every case they have the same length.
C13_SameOrderSameBytes ==
    FormattedTwice =>
        /\ Cardinality(DOMAIN ev.structured_data.val) <= 1 => sink = prev.sink
        /\ iter = prev.iter => sink = prev.sink
        /\ Len(sink) = Len(prev.sink)

\* C13 witness: an event with two identifiers was formatted twice, the map
\* iterated in two different orders, and the outputs differ
C13_Witness ==
    /\ FormattedTwice
    /\ Len(iter) = 2
    /\ iter # prev.iter
    /\ sink # prev.sink
    /\ Len(sink) = Len(prev.sink)

\* the buffers the call of caller i gives to its sink when it runs alone
AloneWrites(i) ==
    format_writes(cfg,
                  format_log(cfg, callers[i].ev, callers[i].iter),
                  callers[i].ev.message)

\* the sink of caller i holds what the call alone has written after as many writes
AsAlone(i) ==
    /\ callers[i].at = "write" =>
          callers[i].sink = written(AloneWrites(i), callers[i].n)
    /\ callers[i].at = "done" =>
          /\ callers[i].n = Len(AloneWrites(i))
          /\ callers[i].sink = written(AloneWrites(i), Len(AloneWrites(i)))

\* C14: when several callers format through one shared built config at the
\* same time, each with its own event and its own sink, every interleaving
\* leaves the config unchanged and each caller's sink receives exactly the
\* bytes the same call produces when run alone.
C14_SharedConfig ==
    /\ [](pc = "shared" => \A i \in Callers : AsAlone(i))
    /\ [][pc = "shared" => cfg' = cfg]_vars

\* C14 witness: two callers with different events are both between two of
\* their writes
C14_Witness ==
    /\ pc = "shared"
    /\ callers[1].at = "write" /\ callers[1].n >= 1
    /\ callers[2].at = "write" /\ callers[2].n >= 1
    /\ callers[1].ev # callers[2].ev
    /\ callers[1].sink # <<>> /\ callers[2].sink # <<>>

\* the four header fields of a config and their caps
HeaderFields == {"hostname", "app_name", "pid", "msg_id"}

FieldCap(f) ==
    CASE f = "hostname" -> 255
      [] f = "app_name" -> 48
      [] f = "pid" -> 128
      [] f = "msg_id" -> 32

\* every header field of the config c is non-empty, graphic and within its cap
ValidatedOrNil(c) ==
    \A f \in HeaderFields :
        /\ c[f] # <<>>
        /\ \A i \in 1 .. Len(c[f]) : c[f][i] \in 33 .. 126
        /\ Len(c[f]) <= FieldCap(f)

\* C15: after any sequence of builder calls followed by build(), each of
\* hostname, app-name, pid and msg-id in the config is non-empty, all ASCII
\* graphic and within its cap; a field for which no setter succeeded is the
\* single character '-' (it is '-' after new() and changes only in a call of
\* its own setter that returns Ok, to the value given); build() never fails
\* and hands out the staged config.
C15_ValidatedOrNil ==
    /\ [](/\ pc = "building" => ValidatedOrNil(builder)
          /\ pc \in {"built", "formatted"} => ValidatedOrNil(cfg)
          /\ (pc = "building" /\ call.op = "new") =>
                \A f \in HeaderFields : builder[f] = <<45>>
          /\ pc = "building" => ENABLED build)
    /\ [][/\ (pc = "building" /\ pc' = "building") =>
                \A f \in HeaderFields :
                    builder'[f] # builder[f] =>
                       /\ call'.op = f
                       /\ result'.ok
                       /\ builder'[f] = call'.val
          /\ (pc = "building" /\ pc' = "built") => cfg' = builder]_vars

\* C15 witness: a built config in which the setters of hostname and pid
\* succeeded and those of app-name and msg-id were not called or failed
C15_Witness ==
    /\ pc = "built"
    /\ call.op = "build"
    /\ cfg.hostname = <<103>>
    /\ cfg.pid = <<49>>
    /\ cfg.app_name = <<45>>
    /\ cfg.msg_id = <<45>>

\* the staged config after the successful builder call `c` on the staged
\* config b: the part the call is about replaced or extended, the rest as it was
AfterCall(b, c) ==
    CASE c.op \in HeaderFields -> [b EXCEPT ![c.op] = c.val]
      [] c.op = "write_format" -> [b EXCEPT !.write_format = c.val]
      [] c.op = "origin" -> [b EXCEPT !.iana_origin = Append(@, c.val)]
      [] c.op = "time_quality" ->
            [b EXCEPT !.iana_time_quality = Append(@, c.val)]

\* C16: in a chain of successful builder calls each setter (hostname,
\* app_name, pid, msg_id, write_format, origin, time_quality) stores the
\* value of the call and leaves every other part of the staged config
\* unchanged, including the facility and enterprise id, which are those given
\* to new(); build() hands out the staged config as it is, so each header
\* field of the built config holds the value of the last setter call for it.
C16_LastWriteWins ==
    [][/\ (pc = "start" /\ pc' = "building") =>
             /\ builder'.enterprise_id = call'.val[1]
             /\ builder'.facility = call'.val[2]
       /\ (pc = "building" /\ pc' = "building") =>
             builder' = AfterCall(builder, call')
       /\ (pc = "building" /\ pc' = "built") => cfg' = builder
       /\ pc \in {"built", "formatted"} => cfg' = cfg]_vars

\* C16 witness: hostname was set a second time, to `g`, after app-name, the
\* write format and an origin entry had been staged, and they are still there
C16_Witness ==
    /\ pc = "building"
    /\ call.op = "hostname"
    /\ call.val = <<103>>
    /\ builder.hostname = <<103>>
    /\ builder.app_name = <<97>>
    /\ builder.write_format = "RFC5425"
    /\ builder.iana_origin = <<Ip(<<49>>)>>
    /\ builder.enterprise_id = <<233>>
    /\ builder.facility = FacilityLocal7

\* the tokens of the first n origin entries, in the order of the vector
RECURSIVE OriginTokens(_, _)
OriginTokens(os, n) ==
    IF n = 0 THEN <<>> ELSE OriginTokens(os, n - 1) \o Origin_to_string(os[n])

\* the tokens of the first n time-quality entries, in the order of the vector
RECURSIVE TimeQualityTokens(_, _)
TimeQualityTokens(ts, n) ==
    IF n = 0 THEN <<>>
    ELSE TimeQualityTokens(ts, n - 1) \o TimeQuality_to_string(ts[n])

\* `[origin` + tokens + `]`, or nothing when no origin entry was added
OriginBlock ==
    IF cfg.iana_origin = <<>> THEN <<>>
    ELSE <<91, 111, 114, 105, 103, 105, 110>>
         \o OriginTokens(cfg.iana_origin, Len(cfg.iana_origin)) \o <<93>>

\* `[timeQuality` + tokens + `]`, or nothing when no entry was added
TimeQualityBlock ==
    IF cfg.iana_time_quality = <<>> THEN <<>>
    ELSE <<91, 116, 105, 109, 101, 81, 117, 97, 108, 105, 116, 121>>
         \o TimeQualityTokens(cfg.iana_time_quality, Len(cfg.iana_time_quality))
         \o <<93>>

\* C17: origin() and time_quality() add their entry at the end of its vector,
\* and the structured-data section of the output holds first `[origin` + the
\* origin tokens in that order + `]` if at least one origin entry was added,
\* then `[timeQuality` + the time-quality tokens in that order + `]` if at
\* least one was added, then the event's elements; a reserved block with no
\* entries is omitted entirely.
C17_ReservedBlocks ==
    /\ [](Formatted =>
            SdSection =
                OriginBlock
                \o TimeQualityBlock
                \o (IF ev.structured_data.some
                    THEN format_elements(cfg, ev.structured_data.val, iter)
                    ELSE IF OriginBlock \o TimeQualityBlock = <<>>
                         THEN <<45>> ELSE <<>>))
    /\ [][(pc = "building" /\ pc' = "building") =>
             /\ call'.op = "origin" =>
                   builder'.iana_origin = Append(builder.iana_origin, call'.val)
             /\ call'.op = "time_quality" =>
                   builder'.iana_time_quality =
                      Append(builder.iana_time_quality, call'.val)]_vars

\* C17 witness: a config with one origin entry and one time-quality entry
\* formatted an event with an element: both blocks and the element are written
C17_Witness ==
    /\ Formatted
    /\ Len(cfg.iana_origin) = 1
    /\ Len(cfg.iana_time_quality) = 1
    /\ ev.structured_data = Some(SdOne)
    /\ OriginBlock # <<>>
    /\ TimeQualityBlock # <<>>
    /\ Len(SdSection) > Len(OriginBlock) + Len(TimeQualityBlock)

\* the tokens of the first n pairs: space + remove_invalid(name) + `="` +
\* escape_val(value) + `"` each
RECURSIVE ClaimedPairs(_, _)
ClaimedPairs(pairs, n) ==
    IF n = 0 THEN <<>>
    ELSE ClaimedPairs(pairs, n - 1)
         \o <<32>> \o remove_invalid(pairs[n][1]) \o <<61, 34>>
         \o escape_val(pairs[n][2]) \o <<34>>

\* the element of the identifier id of the event's structured data
ClaimedElement(id) ==
    <<91>> \o remove_invalid(id) \o <<64>> \o cfg.enterprise_id
    \o ClaimedPairs(ev.structured_data.val[id], Len(ev.structured_data.val[id]))
    \o <<93>>

\* the elements of the first n identifiers visited
RECURSIVE ClaimedElements(_)
ClaimedElements(n) ==
    IF n = 0 THEN <<>> ELSE ClaimedElements(n - 1) \o ClaimedElement(iter[n])

\* the structured-data section after the reserved blocks
ElementsPart ==
    SubSeq(SdSection, Len(OriginBlock) + Len(TimeQualityBlock) + 1,
           Len(SdSection))

\* C19: for every identifier in the event's structured data format emits
\* exactly one element `[` + remove_invalid(identifier) + `@` + the config's
\* enterprise id + one token space + remove_invalid(name) + `="` +
\* escape_val(value) + `"` per pair, in the order of the pairs, + `]`: every
\* identifier is visited once, and pairs with duplicate names and identifiers
\* that are equal after sanitizing are all emitted.
C19_Elements ==
    (Formatted /\ ev.structured_data.some) =>
        /\ Len(iter) = Cardinality(DOMAIN ev.structured_data.val)
        /\ {iter[i] : i \in 1 .. Len(iter)} = DOMAIN ev.structured_data.val
        /\ ElementsPart = ClaimedElements(Len(iter))

\* C19 witness: the identifiers `x` and `x `, equal after sanitizing, the
\* first with two pairs of the name `k`, were written as two elements
\* `[x@..` with both pairs in the first
C19_Witness ==
    /\ Formatted
    /\ ev.structured_data = Some(SdTwo)
    /\ iter = << <<120>>, <<120, 32>> >>
    /\ remove_invalid(iter[1]) = remove_invalid(iter[2])
    /\ ElementsPart =
          <<91, 120, 64>> \o cfg.enterprise_id
          \o <<32, 107, 61, 34, 49, 34>> \o <<32, 107, 61, 34, 92, 92, 34>>
          \o <<93>>
          \o <<91, 120, 64>> \o cfg.enterprise_id \o <<93>>

\* the bytes of the output between `>` and the first space: the version field
VersionField ==
    LET out == FromPri(sink)
        gt == FirstIndex(out, 62)
        rest == SubSeq(out, gt + 1, Len(out))
    IN  SubSeq(rest, 1, FirstIndex(rest, 32) - 1)

\* C20: every Rfc5424 config a caller can obtain through the public interface
\* has version 1, so every message written by format carries the version
\* field `1`.
C20_Original ==
    /\ pc \in {"built", "formatted"} => cfg.version = 1
    /\ Formatted => VersionField = <<49>>

\* the config on which the code departs from C20: Rfc5424::default() has
\* version 0 and format writes the version field `0`
C20_Departure ==
    /\ Formatted
    /\ call.op = "default"
    /\ cfg.version = 0
    /\ VersionField = <<48>>

\* a config handed out by Rfc5424Builder::build has version 1 and its messages
\* carry the version field `1`
C20_BuilderVersion ==
    (pc \in {"built", "formatted"} /\ call.op = "build") =>
        /\ cfg.version = 1
        /\ Formatted => VersionField = <<49>>

(***************************************************************************)
(* Claims about the pure functions.                                        *)
(***************************************************************************)
\* C3: for every facility and severity, generate_priority renders `<N>` with
\* N = facility_code * 8 + severity_code as unpadded decimal; N lies in
\* 0..191, so the arithmetic stays within 8 bits; (User, Error) gives `<11>`.
C3_Priority ==
    pc = "output" =>
        LET n == arg.facility * 8 + arg.severity
            digits == SubSeq(ret, 2, Len(ret) - 1)
        IN  /\ n \in 0 .. 191
            /\ arg.facility * 8 < 256
            /\ Len(ret) >= 3
            /\ ret[1] = 60
            /\ ret[Len(ret)] = 62
            /\ Unpadded(digits)
            /\ ParseDecimal(digits) = n
            /\ (arg.facility = 1 /\ arg.severity = 3 => ret = <<60, 49, 49, 62>>)

\* C3 witness: (Local7, Debug), the largest priority, was rendered `<191>`
C3_Witness ==
    /\ pc = "output"
    /\ arg.facility = 23
    /\ arg.severity = 7
    /\ ret = <<60, 49, 57, 49, 62>>

\* the cap of a header-field type, as the claims state it
ClaimedCap(kind) ==
    CASE kind = "HostName" -> 255
      [] kind = "AppName" -> 48
      [] kind = "ProcessId" -> 128
      [] kind = "MessageId" -> 32

AllGraphic(s) == \A i \in 1 .. Len(s) : s[i] >= 33 /\ s[i] <= 126

\* C6: a header-field constructor accepts an input if and only if it is
\* non-empty, every character is ASCII graphic and its length is at most the
\* type's cap; an accepted field holds the input unchanged.
C6_AcceptIff ==
    pc = "output" =>
        /\ ret.ok <=> /\ arg.value # <<>>
                      /\ AllGraphic(arg.value)
                      /\ Len(arg.value) <= ClaimedCap(arg.kind)
        /\ ret.ok => ret.val = arg.value

\* C6 witness: an app name of exactly 48 characters was accepted unchanged
C6_Witness ==
    /\ pc = "output"
    /\ arg.kind = "AppName"
    /\ Len(arg.value) = 48
    /\ ret.ok
    /\ ret.val = arg.value

\* C7 as stated: every input longer than the type's cap is rejected with
\* FieldTooLong.
C7_Original ==
    (pc = "output" /\ Len(arg.value) > ClaimedCap(arg.kind)) =>
        (~ret.ok /\ ret.err = "FieldTooLong")

\* C7 as amended: every input longer than the type's cap whose characters are
\* all ASCII graphic is rejected with FieldTooLong; one that holds a character
\* that is not ASCII graphic is rejected with InvalidCharacters.
C7_TooLong ==
    (pc = "output" /\ Len(arg.value) > ClaimedCap(arg.kind)) =>
        /\ ~ret.ok
        /\ ret.err = (IF AllGraphic(arg.value) THEN "FieldTooLong"
                      ELSE "InvalidCharacters")

\* C7 witness: a message id of 33 graphic characters was rejected as too long
C7_Witness ==
    /\ pc = "output"
    /\ arg.kind = "MessageId"
    /\ Len(arg.value) = 33
    /\ AllGraphic(arg.value)
    /\ ~ret.ok
    /\ ret.err = "FieldTooLong"

\* C8: the empty input is rejected with FieldEmpty, and every input holding a
\* character outside ASCII graphic is rejected with InvalidCharacters,
\* whatever its length.
C8_EmptyAndInvalid ==
    pc = "output" =>
        /\ arg.value = <<>> => (~ret.ok /\ ret.err = "FieldEmpty")
        /\ ~AllGraphic(arg.value) => (~ret.ok /\ ret.err = "InvalidCharacters")

\* C8 witness: a host name longer than 255 characters that ends in a space was
\* rejected for its characters
C8_Witness ==
    /\ pc = "output"
    /\ arg.kind = "HostName"
    /\ Len(arg.value) > 255
    /\ arg.value[Len(arg.value)] = 32
    /\ ~ret.ok
    /\ ret.err = "InvalidCharacters"

\* what one character becomes when escaped
EscapedChar(c) == IF c \in {92, 34, 93} THEN <<92, c>> ELSE <<c>>

RECURSIVE EscapedString(_)
EscapedString(s) ==
    IF s = <<>> THEN <<>> ELSE EscapedChar(Head(s)) \o EscapedString(Tail(s))

\* every backslash starts a pair, and no `"` or `]` stands outside a pair
RECURSIVE WellEscaped(_)
WellEscaped(s) ==
    IF s = <<>> THEN TRUE
    ELSE IF Head(s) = 92
         THEN /\ Len(s) >= 2
              /\ s[2] \in {92, 34, 93}
              /\ WellEscaped(SubSeq(s, 3, Len(s)))
    ELSE Head(s) \notin {34, 93} /\ WellEscaped(Tail(s))

\* drop the backslash that starts each pair
RECURSIVE Unescape(_)
Unescape(s) ==
    IF s = <<>> THEN <<>>
    ELSE IF Head(s) = 92 /\ Len(s) >= 2
         THEN <<s[2]>> \o Unescape(SubSeq(s, 3, Len(s)))
    ELSE <<Head(s)>> \o Unescape(Tail(s))

\* C9: escape_val returns the input with each backslash, double quote and
\* closing bracket preceded by one backslash; the output holds no unescaped
\* `"` or `]` and no lone backslash, and unescaping it recovers the input.
C9_Escape ==
    pc = "output" =>
        /\ ret = EscapedString(arg)
        /\ WellEscaped(ret)
        /\ Unescape(ret) = arg

\* C9 witness: the value `\"]` was escaped to `\\\"\]`
C9_Witness ==
    /\ pc = "output"
    /\ arg = <<92, 34, 93>>
    /\ ret = <<92, 92, 92, 34, 92, 93>>

\* a character remove_invalid keeps
KeptChar(c) == c >= 33 /\ c <= 126 /\ c \notin {61, 32, 93, 34}

\* the positions of s that hold a kept character
KeptAt(s) == {i \in 1 .. Len(s) : KeptChar(s[i])}

\* the j-th smallest element of the set of positions P
Nth(P, j) == CHOOSE i \in P : Cardinality({k \in P : k <= i}) = j

\* C10: remove_invalid returns the first 32, in their order, of the input's
\* characters that are ASCII graphic and none of `=`, space, `]`, `"`: the
\* output never exceeds 32 characters and holds no removed character.
C10_RemoveInvalid ==
    pc = "output" =>
        LET kept == KeptAt(arg)
            n == IF Cardinality(kept) < 32 THEN Cardinality(kept) ELSE 32
        IN  /\ Len(ret) = n
            /\ Len(ret) <= 32
            /\ \A j \in 1 .. n : ret[j] = arg[Nth(kept, j)]
            /\ \A j \in 1 .. Len(ret) : KeptChar(ret[j])

\* C10 witness: a name of which more than 32 characters are kept and one of
\* the first 32 is removed came back as 32 characters
C10_Witness ==
    /\ pc = "output"
    /\ Cardinality(KeptAt(arg)) > 32
    /\ \E i \in 1 .. 32 : ~KeptChar(arg[i])
    /\ Len(ret) = 32

\* the name the claim gives to the token of each variant
ClaimedName(e) ==
    CASE e.variant = "Ip" -> <<105, 112>>
      [] e.variant = "EnterpriseId" ->
            <<101, 110, 116, 101, 114, 112, 114, 105, 115, 101, 73, 100>>
      [] e.variant = "Software" -> <<115, 111, 102, 116, 119, 97, 114, 101>>
      [] e.variant = "Version" -> <<115, 119, 86, 101, 114, 115, 105, 111, 110>>
      [] e.variant = "TzKnown" -> <<116, 122, 75, 110, 111, 119, 110>>
      [] e.variant = "IsSynced" -> <<105, 115, 83, 121, 110, 99, 101, 100>>
      [] e.variant = "SyncAccuracy" ->
            <<115, 121, 110, 99, 65, 99, 99, 117, 114, 97, 99, 121>>

\* the value of the token: the string, `1` or `0` for a flag, the decimal number
ClaimedValue(e) ==
    CASE e.variant \in {"Ip", "EnterpriseId", "Software", "Version"} -> e.val
      [] e.variant \in {"TzKnown", "IsSynced"} ->
            (IF e.flag THEN <<49>> ELSE <<48>>)
      [] e.variant = "SyncAccuracy" -> to_string(e.num)

\* C18: every reserved entry renders as exactly one token space + name + `="`
\* + value + `"`, the name fixed by the variant alone (ip, enterpriseId,
\* software, swVersion, tzKnown, isSynced, syncAccuracy), a flag rendered as
\* `1` for true and `0` for false; TimeQuality::TzKnown(false) renders
\* ` tzKnown="0"`.
C18_Original ==
    pc = "output" =>
        ret = <<32>> \o ClaimedName(arg) \o <<61, 34>> \o ClaimedValue(arg)
              \o <<34>>

\* the entry on which Display departs from C18: TzKnown(false) is rendered
\* with the name tz_known
C18_Departure ==
    /\ pc = "output"
    /\ arg = TzKnown(FALSE)
    /\ ret = <<32, 116, 122, 95, 107, 110, 111, 119, 110, 61, 34, 48, 34>>

\* every entry but TzKnown(false) renders as C18 says
C18_OtherEntries ==
    (pc = "output" /\ arg # TzKnown(FALSE)) =>
        ret = <<32>> \o ClaimedName(arg) \o <<61, 34>> \o ClaimedValue(arg)
              \o <<34>>

====
